---- MODULE Spec2Model ----
(***************************************************************************)
(* Model of the amortization core of the mortgage calculator:              *)
(*   utils/calculation_utils.py  get_applicable_interest_rate,             *)
(*                               calculate_amortization                    *)
(*   utils/date_utils.py         get_payment_date, format_date,            *)
(*                               payment_date_to_month                     *)
(* and of two of its callers:                                              *)
(*   components/tabs/overpayment_tab.py     the overpayment map            *)
(*   components/tabs/counterfactual_tab.py  the counterfactual schedule    *)
(*                                                                         *)
(* Numbers.  The program computes in Python floats.  A float is modelled   *)
(* as a decimal fixed-point number: the integer n stands for n / Scale.    *)
(* Addition and subtraction are exact; a product, a quotient and a power   *)
(* are the exact result rounded to the nearest multiple of 1 / Scale, as   *)
(* IEEE 754 rounds each result to the nearest representable value.  The    *)
(* grid is coarser than a double's, so the size of a rounding residue is   *)
(* larger than in the program; its existence and its sign are the same     *)
(* kind of event.  The monthly rate and its multiples, numbers below 1,    *)
(* are kept on a grid Kilo times finer, as a double keeps more digits of   *)
(* a smaller number; 1 + rate is back on the grid of numbers near 1.       *)
(* All intermediate values stay below 2^31.                                *)
(*                                                                         *)
(* Dates are <<year, month, day>> triples of the proleptic Gregorian       *)
(* calendar, ordered lexicographically as datetime.date is.                *)
(*                                                                         *)
(* An optional Python value (None or a value v) is <<>> or <<v>>.          *)
(***************************************************************************)
EXTENDS Integers, Sequences, FiniteSets, TLC

VARIABLES
    \* ---- one call of get_applicable_interest_rate by an outside caller
    r_pc,                 \* "idle" | "ready" | "returned" | "raised"
    r_date,               \* argument date
    r_rates,              \* argument interest_rates (a list, in the caller's order)
    r_result,             \* <<>> or <<rate returned by the latest call>>
    r_first,              \* <<>> or <<rate returned by the first call>>
    r_calls,              \* number of calls made on this schedule
    \* ---- one call of calculate_amortization
    pc,                   \* "idle" | "call" | "loop" | "done" | "raised"
    loan_amount, interest_rate, total_months, start_date,
    extra_payment,
    overpayments_arg,     \* <<>> (None) or <<map>>
    interest_rates_arg,   \* <<>> (None) or <<list>>
    overpayments,         \* the local after line 32-33
    interest_rates,       \* the local after line 22-23
    schedule, remaining_balance, total_interest, month_counter,
    prev_monthly_payment, \* <<>> (None) or <<payment>>
    \* ---- the caller of calculate_amortization (a tab making two calls)
    calls_made,           \* calls that have returned and been followed by another
    first_call,           \* <<>> or <<the first call's objects and schedule>>
    \* ---- the overpayment tab building the map it passes to the engine
    tab_pc,               \* "idle" | "build" | "built"
    session_overpayments, \* st.session_state.overpayments, a list of entries
    tab_i,                \* entries the loop of line 77 has been through
    overpayments_dict     \* {month: amount}

rvars == <<r_pc, r_date, r_rates, r_result, r_first, r_calls>>
args  == <<loan_amount, interest_rate, total_months, start_date,
           extra_payment, overpayments_arg, interest_rates_arg>>
evars == <<pc, overpayments, interest_rates, schedule, remaining_balance,
           total_interest, month_counter, prev_monthly_payment>>
cvars == <<calls_made, first_call>>
tvars == <<tab_pc, session_overpayments, tab_i, overpayments_dict>>
vars  == <<rvars, args, evars, cvars, tvars>>

-----------------------------------------------------------------------------
(* Fixed-point arithmetic standing for float arithmetic.                   *)

Kilo  == 10 * 10 * 10
Scale == Kilo * Kilo

Min(a, b) == IF a <= b THEN a ELSE b

\* round(n / d) to nearest; n >= 0, d > 0
RoundDiv(n, d) == IF 2 * (n % d) >= d THEN (n \div d) + 1 ELSE n \div d

\* x * y for x, y >= 0: the exact product rounded to the grid.  The product is
\* formed limb by limb (base Kilo) so that no intermediate exceeds 2^31.
FMul(x, y) ==
    LET x2 == x \div Scale
        xl == x % Scale
        y2 == y \div Scale
        yl == y % Scale
        x1 == xl \div Kilo
        x0 == xl % Kilo
        y1 == yl \div Kilo
        y0 == yl % Kilo
    IN  x2 * y2 * Scale + x2 * yl + xl * y2 + x1 * y1
        + RoundDiv((x1 * y0 + x0 * y1) * Kilo + x0 * y0, Scale)

\* x * f for x >= 0 on the grid and 0 <= f < 1 on the fine grid, Kilo times
\* finer, on which the monthly rate and its multiples are kept: the exact
\* product rounded to the grid, formed limb by limb
FMulFine(x, f) ==
    LET x2 == x \div Scale
        x1 == (x % Scale) \div Kilo
        x0 == x % Kilo
        f2 == f \div Scale
        f1 == (f % Scale) \div Kilo
        f0 == f % Kilo
        t1 == x1 * f0 + x0 * f1
        u  == x2 * f0 + x1 * f1 + x0 * f2 + (t1 \div Kilo)
    IN  x2 * f2 * Kilo + x2 * f1 + x1 * f2 + (u \div Kilo)
        + RoundDiv((u % Kilo) * Scale + (t1 % Kilo) * Kilo + x0 * f0,
                   Scale * Kilo)

\* 1 + f for f on the fine grid: the sum rounded to the grid, as a double
\* near 1 keeps fewer digits of a small addend than the addend has
OnePlus(f) == Scale + RoundDiv(f, Kilo)

\* round(r * w / y) for 0 <= r < y and w a power of ten, digit by digit
RECURSIVE FracDigits(_, _, _)
FracDigits(r, y, w) ==
    IF w = 1 THEN (IF 2 * r >= y THEN 1 ELSE 0)
    ELSE ((r * 10) \div y) * (w \div 10)
         + FracDigits((r * 10) % y, y, w \div 10)

\* x / y for x >= 0, y > 0: the exact quotient rounded to the grid (long division)
FDiv(x, y) == (x \div y) * Scale + FracDigits(x % y, y, Scale)

\* x / k for a whole number k > 0 (k given as the float k.0)
FDivInt(x, k) == RoundDiv(x, k)

\* x ** n for a whole exponent n >= 0
RECURSIVE FPow(_, _)
FPow(x, n) ==
    IF n = 0 THEN Scale
    ELSE IF n % 2 = 0 THEN LET h == FPow(x, n \div 2) IN FMul(h, h)
    ELSE FMul(x, FPow(x, n - 1))

-----------------------------------------------------------------------------
(* Dates: datetime.date and dateutil.relativedelta(months = n).            *)

DateLE(a, b) ==
    \/ a[1] < b[1]
    \/ a[1] = b[1] /\ a[2] < b[2]
    \/ a[1] = b[1] /\ a[2] = b[2] /\ a[3] <= b[3]

DateLT(a, b) == DateLE(a, b) /\ a # b

IsLeap(y) == y % 4 = 0 /\ (y % 100 # 0 \/ y % 400 = 0)

DaysInMonth(y, m) ==
    IF m = 2 THEN (IF IsLeap(y) THEN 29 ELSE 28)
    ELSE IF m \in {4, 6, 9, 11} THEN 30 ELSE 31

\* date + relativedelta(months = n), n >= 0
AddMonths(date, n) ==
    LET t == date[1] * 12 + (date[2] - 1) + n
        y == t \div 12
        m == (t % 12) + 1
    IN  <<y, m, Min(date[3], DaysInMonth(y, m))>>

\* a slip: each date computed from the date of the period before it
RECURSIVE get_payment_date_chained(_, _)
get_payment_date_chained(sd, month_number) ==
    IF month_number <= 1 THEN sd
    ELSE AddMonths(get_payment_date_chained(sd, month_number - 1), 1)

get_payment_date(sd, month_number) == AddMonths(sd, month_number - 1)

\* strftime("%Y-%m"): the year and the month, the day dropped
format_date(date) == <<date[1], date[2]>>

-----------------------------------------------------------------------------
(* get_applicable_interest_rate (calculation_utils.py 6-17).  A rate entry *)
(* {'rate': r, 'start_date': d} is the record [rate |-> r, start_date |-> d]. *)

\* sorted(..., reverse=True) is stable: of two entries with the same key the
\* one that came first in the input stays first.
RECURSIVE InsertDesc(_, _)
InsertDesc(e, s) ==
    IF s = <<>> THEN <<e>>
    ELSE IF DateLT(Head(s).start_date, e.start_date) THEN <<e>> \o s
    ELSE <<Head(s)>> \o InsertDesc(e, Tail(s))

RECURSIVE SortDesc(_)
SortDesc(rates) ==
    IF rates = <<>> THEN <<>>
    ELSE InsertDesc(rates[Len(rates)], SortDesc(SubSeq(rates, 1, Len(rates) - 1)))

\* a plausible slip: the list is scanned in the caller's order
SortedRatesUnsorted(rates) == rates

\* line 9
sorted_rates(rates) == SortDesc(rates)

\* a plausible slip: `<` for `<=`
RateAppliesStrict(rate_info, date) == DateLT(rate_info.start_date, date)

\* line 13: rate_info['start_date'] <= date
RateApplies(rate_info, date) == DateLE(rate_info.start_date, date)

\* lines 12-14: <<rate>> of the first entry that applies, <<>> when the loop ends
RECURSIVE FirstApplicable(_, _)
FirstApplicable(date, s) ==
    IF s = <<>> THEN <<>>
    ELSE IF RateApplies(Head(s), date) THEN <<Head(s).rate>>
    ELSE FirstApplicable(date, Tail(s))

\* a plausible slip: sorted_rates[0] for sorted_rates[-1]
FallbackRateNewest(s) == s[1].rate

\* line 17: sorted_rates[-1]['rate']; IndexError on an empty list
FallbackRate(s) == s[Len(s)].rate

\* the value returned for a non-empty list
get_applicable_interest_rate(date, rates) ==
    LET s   == sorted_rates(rates)
        hit == FirstApplicable(date, s)
    IN  IF hit # <<>> THEN hit[1] ELSE FallbackRate(s)

\* the call raises (IndexError at line 17) exactly when the list is empty
ResolverRaises(date, rates) == rates = <<>>

-----------------------------------------------------------------------------
(* Inputs of the resolver specification.                                   *)

MaxEntries == 3
MaxCalls   == 2

RateValues == {3 * Scale, 4 * Scale, 5 * Scale}
EntryDates == {<<2022, 1, 1>>, <<2023, 1, 1>>, <<2023, 7, 1>>}
QueryDates == {<<2021, 1, 1>>, <<2022, 12, 31>>, <<2023, 1, 1>>,
               <<2023, 6, 15>>, <<2023, 7, 1>>}
RateEntries == [rate : RateValues, start_date : EntryDates]

SeqsUpTo(S, n) == UNION {[1..k -> S] : k \in 0..n}

\* the same entries in another order
Reorderings(s) ==
    {[i \in 1..Len(s) |-> s[f[i]]] : f \in Permutations(1..Len(s))}

UniqueDates(rates) ==
    \A i, j \in 1..Len(rates) :
        rates[i].start_date = rates[j].start_date => i = j

TabIdle ==
    /\ tab_pc = "idle" /\ session_overpayments = <<>>
    /\ tab_i = 0 /\ overpayments_dict = <<>>

EngineIdle ==
    /\ pc = "idle"
    /\ loan_amount = 0 /\ interest_rate = 0 /\ total_months = 0
    /\ start_date = <<>> /\ extra_payment = 0
    /\ overpayments_arg = <<>> /\ interest_rates_arg = <<>>
    /\ overpayments = <<>> /\ interest_rates = <<>>
    /\ schedule = <<>> /\ remaining_balance = 0 /\ total_interest = 0
    /\ month_counter = 0 /\ prev_monthly_payment = <<>>
    /\ calls_made = 0 /\ first_call = <<>>

InitResolver ==
    /\ r_pc = "ready"
    /\ r_date \in QueryDates
    /\ r_rates \in SeqsUpTo(RateEntries, MaxEntries)
    /\ r_result = <<>> /\ r_first = <<>> /\ r_calls = 0
    /\ EngineIdle /\ TabIdle

\* a caller passes the schedule, its entries in any order, and gets a rate
ResolveReturns ==
    /\ r_pc \in {"ready", "returned"} /\ r_calls < MaxCalls
    /\ \E p \in Reorderings(r_rates) :
        /\ ~ResolverRaises(r_date, p)
        /\ r_rates' = p
        /\ r_result' = <<get_applicable_interest_rate(r_date, p)>>
        /\ r_first' = IF r_calls = 0 THEN r_result' ELSE r_first
    /\ r_calls' = r_calls + 1
    /\ r_pc' = "returned"
    /\ UNCHANGED <<r_date, args, evars, cvars, tvars>>

\* the call on an empty schedule ends in IndexError
ResolveRaises ==
    /\ r_pc = "ready" /\ r_calls < MaxCalls
    /\ ResolverRaises(r_date, r_rates)
    /\ r_calls' = r_calls + 1
    /\ r_pc' = "raised"
    /\ UNCHANGED <<r_date, r_rates, r_result, r_first, args, evars, cvars, tvars>>

NextResolver == ResolveReturns \/ ResolveRaises

SpecResolver == InitResolver /\ [][NextResolver]_vars

-----------------------------------------------------------------------------
(* Claims about the rate resolver (checked under SpecResolver).            *)

Returned == r_pc = "returned"

SomeApplies(date, rates) == \E i \in 1..Len(rates) : DateLE(rates[i].start_date, date)

\* C1: for a non-empty schedule with unique effective dates and a date on or
\* after at least one effective date, the rate returned is that of the entry
\* with the latest effective date <= the date (boundary inclusive).
C1_LatestApplicable ==
    (Returned /\ UniqueDates(r_rates) /\ SomeApplies(r_date, r_rates)) =>
        \E i \in 1..Len(r_rates) :
            /\ DateLE(r_rates[i].start_date, r_date)
            /\ \A j \in 1..Len(r_rates) :
                  DateLE(r_rates[j].start_date, r_date)
                      => DateLE(r_rates[j].start_date, r_rates[i].start_date)
            /\ r_result = <<r_rates[i].rate>>

\* the date equals the effective date of an entry that is neither the first
\* nor the only one, and that entry's rate is returned
C1_Witness ==
    /\ Returned /\ UniqueDates(r_rates) /\ Len(r_rates) = 3
    /\ r_date = <<2023, 1, 1>>
    /\ \E i \in 1..3 : r_rates[i].start_date = r_date
                       /\ r_result = <<r_rates[i].rate>>
                       /\ r_rates[i].rate = 4 * Scale
    /\ \E i \in 1..3 : r_rates[i].start_date = <<2022, 1, 1>>
                       /\ r_rates[i].rate = 3 * Scale

\* C2: when the date precedes every effective date of a non-empty schedule,
\* the call returns the rate of the chronologically earliest entry and does
\* not fail.
C2_EarliestFallback ==
    /\ (r_pc = "raised") => r_rates = <<>>
    /\ (Returned /\ UniqueDates(r_rates) /\ ~SomeApplies(r_date, r_rates)) =>
        \E i \in 1..Len(r_rates) :
            /\ \A j \in 1..Len(r_rates) :
                  DateLE(r_rates[i].start_date, r_rates[j].start_date)
            /\ r_result = <<r_rates[i].rate>>

C2_Witness ==
    /\ Returned /\ Len(r_rates) = 2 /\ UniqueDates(r_rates)
    /\ r_date = <<2021, 1, 1>>
    /\ r_rates[1].rate # r_rates[2].rate
    /\ r_result = <<3 * Scale>>

\* C3: the resolver is order-independent: with unique effective dates, a call
\* with the same date and the entries in any other order returns the rate the
\* first call returned, and so does every repetition of the call.
C3_OrderIndependent ==
    (Returned /\ UniqueDates(r_rates)) =>
        /\ r_result = r_first
        /\ \A p \in Reorderings(r_rates) :
              get_applicable_interest_rate(r_date, p) = r_first[1]

\* a second call, with three entries in an order that is not sorted
C3_Witness ==
    /\ Returned /\ r_calls = 2 /\ UniqueDates(r_rates) /\ Len(r_rates) = 3
    /\ DateLT(r_rates[1].start_date, r_rates[3].start_date)
    /\ DateLT(r_rates[2].start_date, r_rates[1].start_date)
    /\ r_rates[1].rate # r_rates[2].rate /\ r_rates[2].rate # r_rates[3].rate
    /\ r_result = r_first

-----------------------------------------------------------------------------
(* calculate_amortization (calculation_utils.py 19-89).                    *)

SafetyLimit   == 1000
PercentBase   == 100
MonthsPerYear == 12

\* line 42: applicable_rate / 100 / 12, the second quotient on the fine grid
MonthlyRate(applicable_rate) ==
    FDivInt(FDivInt(applicable_rate, PercentBase) * Kilo, MonthsPerYear)

\* a plausible slip: the safety limit left out
LoopConditionUnbounded(balance, counter) == balance > 0

\* line 35: the while condition
LoopCondition(balance, counter) == balance > 0 /\ counter < SafetyLimit

\* a slip: the payment recomputed only for a rate no earlier period had
NeedsRecomputeUnseen(prev, applicable_rate, sched) ==
    prev = <<>> \/ \A i \in 1..Len(sched) : sched[i].Rate # applicable_rate

\* a slip: the payment recomputed in every period
NeedsRecomputeAlways(prev, applicable_rate, sched) == TRUE

\* line 45: prev_monthly_payment is None or applicable_rate != schedule[-1]['Rate']
NeedsRecompute(prev, applicable_rate, sched) ==
    prev = <<>> \/ applicable_rate # sched[Len(sched)].Rate

\* line 47
RemainingTerm(total, counter) == total - counter + 1

\* line 51, the divisor: (1 + monthly_interest_rate) ** remaining_term - 1
AnnuityDivisor(mrate, term) == FPow(OnePlus(mrate), term) - Scale

\* line 51: balance * (r * (1 + r) ** n) / ((1 + r) ** n - 1), evaluated left
\* to right; the division raises ZeroDivisionError when the divisor is 0
AnnuityPayment(balance, mrate, term) ==
    FDiv(FMulFine(balance, FMul(mrate, FPow(OnePlus(mrate), term))),
         AnnuityDivisor(mrate, term))

\* line 54
PayoffPayment(balance, mrate) == FMul(balance, OnePlus(mrate))

\* lines 50-54 raise exactly when line 51 divides by zero
PaymentRaises(balance, mrate, term) ==
    term > 0 /\ AnnuityDivisor(mrate, term) = 0

\* lines 50-54
NewPayment(balance, mrate, term) ==
    IF term > 0 THEN AnnuityPayment(balance, mrate, term)
    ELSE PayoffPayment(balance, mrate)

\* line 61
InterestPayment(balance, mrate) == FMulFine(balance, mrate)

\* a slip of sign: the recurring extra payment taken off the regular
\* principal (up to half of it) instead of added to it
CappedPrincipalLessExtra(monthly_payment, interest_payment, extra, balance) ==
    LET regular == monthly_payment - interest_payment
    IN  Min(regular - Min(extra, regular \div 2), balance)

\* a plausible slip: the principal not capped at the balance
CappedPrincipalUncapped(monthly_payment, interest_payment, extra, balance) ==
    monthly_payment - interest_payment + extra

\* a slip: the principal capped at the payment, not at the balance
CappedPrincipalAtPayment(monthly_payment, interest_payment, extra, balance) ==
    Min(monthly_payment - interest_payment + extra, monthly_payment)

\* line 62
CappedPrincipal(monthly_payment, interest_payment, extra, balance) ==
    Min(monthly_payment - interest_payment + extra, balance)

\* a plausible slip: the map read with the period index counted from zero
OverpaymentAmountZeroBased(ops, counter) ==
    IF counter - 1 \in DOMAIN ops THEN ops[counter - 1] ELSE 0

\* line 65: overpayments.get(month_counter, 0)
OverpaymentAmount(ops, counter) ==
    IF counter \in DOMAIN ops THEN ops[counter] ELSE 0

\* a plausible slip: the overpayment taken with the wrong sign
PrincipalPaymentMinus(monthly_payment, interest_payment, extra, balance, overpayment_amount) ==
    CappedPrincipal(monthly_payment, interest_payment, extra, balance)
        - overpayment_amount

\* a plausible slip: the overpayment capped with the rest of the principal
PrincipalPaymentWithin(monthly_payment, interest_payment, extra, balance, overpayment_amount) ==
    Min(monthly_payment - interest_payment + extra + overpayment_amount, balance)

\* lines 62-66: the principal paid in the period
PrincipalPayment(monthly_payment, interest_payment, extra, balance, overpayment_amount) ==
    CappedPrincipal(monthly_payment, interest_payment, extra, balance)
        + overpayment_amount

\* a slip: the single rate put in front of the schedule supplied
RatesOrDefaultPrepended(rates_arg, rate, sd) ==
    IF rates_arg = <<>> THEN <<[rate |-> rate, start_date |-> sd]>>
    ELSE <<[rate |-> rate, start_date |-> sd]>> \o rates_arg[1]

\* lines 22-23
RatesOrDefault(rates_arg, rate, sd) ==
    IF rates_arg = <<>> THEN <<[rate |-> rate, start_date |-> sd]>>
    ELSE rates_arg[1]

\* lines 32-33 ({} is the function with the empty domain)
OverpaymentsOrEmpty(ops_arg) == IF ops_arg = <<>> THEN <<>> ELSE ops_arg[1]

-----------------------------------------------------------------------------
(* Inputs of the engine specification.                                     *)

MaxTerm == 4

Loans      == {250 * Scale, 1000 * Scale}
Rates      == {0, 4 * Scale, 5 * Scale, 6 * Scale, 12 * Scale}
LongRates  == {5 * Scale, 6 * Scale}
Extras     == {0, 50 * Scale}
OverAmounts == {100 * Scale, 1000 * Scale}
StartDates == {<<2023, 1, 1>>, <<2023, 1, 31>>, <<2023, 12, 31>>}
ShortTerms == 1..MaxTerm
LongTerm   == SafetyLimit + 1

\* {k: amount}
OverpaymentMaps == {(k :> a) : k \in ShortTerms, a \in OverAmounts}

Entry(r, d) == [rate |-> r, start_date |-> d]

\* rate schedules whose changes fall inside the term, relative to the start
RateSchedules(sd) ==
    { <<Entry(5 * Scale, sd), Entry(6 * Scale, AddMonths(sd, 2))>>,
      <<Entry(6 * Scale, AddMonths(sd, 1)), Entry(12 * Scale, sd)>>,
      <<Entry(5 * Scale, sd), Entry(6 * Scale, AddMonths(sd, 1)),
        Entry(5 * Scale, AddMonths(sd, 2))>>,
      <<Entry(5 * Scale, sd), Entry(7 * Scale, AddMonths(sd, 2))>> }

ResolverIdle ==
    /\ r_pc = "idle" /\ r_date = <<>> /\ r_rates = <<>>
    /\ r_result = <<>> /\ r_first = <<>> /\ r_calls = 0

Init ==
    /\ ResolverIdle /\ TabIdle
    /\ pc = "call"
    /\ loan_amount \in Loans
    /\ interest_rate \in Rates
    \* a term of 0 months is the malformed input the code accepts (line 47)
    /\ total_months \in {0} \cup ShortTerms \cup {LongTerm}
    /\ start_date \in StartDates
    /\ extra_payment \in Extras
    /\ overpayments_arg \in {<<>>} \cup {<<m>> : m \in OverpaymentMaps}
    /\ interest_rates_arg \in {<<>>} \cup {<<l>> : l \in RateSchedules(start_date)}
    \* the start at the end of a year is given to the loans without extra
    \* payment and overpayments
    /\ start_date = <<2023, 12, 31>> =>
          extra_payment = 0 /\ overpayments_arg = <<>>
    \* a term beyond the safety limit is given to the plain long loans only
    /\ total_months = LongTerm =>
          /\ loan_amount = 250 * Scale /\ interest_rate \in LongRates
          /\ start_date = <<2023, 1, 1>> /\ extra_payment = 0
          /\ interest_rates_arg = <<>>
          \* and with them the full early repayments of such a loan
          /\ \A k \in DOMAIN OverpaymentsOrEmpty(overpayments_arg) :
                 OverpaymentsOrEmpty(overpayments_arg)[k] >= loan_amount
    /\ overpayments = <<>> /\ interest_rates = <<>>
    /\ schedule = <<>> /\ remaining_balance = 0 /\ total_interest = 0
    /\ month_counter = 0 /\ prev_monthly_payment = <<>>
    /\ calls_made = 0 /\ first_call = <<>>

\* a slip: the schedule kept in a list that outlives the call (a module-level
\* list, a mutable default argument) and is never cleared
CallKeepsSchedule ==
    /\ pc = "call"
    /\ interest_rates' = RatesOrDefault(interest_rates_arg, interest_rate, start_date)
    /\ schedule' = schedule
    /\ remaining_balance' = loan_amount
    /\ total_interest' = 0
    /\ month_counter' = 0
    /\ prev_monthly_payment' = <<>>
    /\ overpayments' = OverpaymentsOrEmpty(overpayments_arg)
    /\ pc' = "loop"
    /\ UNCHANGED <<rvars, args, cvars, tvars>>

\* lines 19-33: the locals before the loop
Call ==
    /\ pc = "call"
    /\ interest_rates' = RatesOrDefault(interest_rates_arg, interest_rate, start_date)
    /\ schedule' = <<>>
    /\ remaining_balance' = loan_amount
    /\ total_interest' = 0
    /\ month_counter' = 0
    /\ prev_monthly_payment' = <<>>
    /\ overpayments' = OverpaymentsOrEmpty(overpayments_arg)
    /\ pc' = "loop"
    /\ UNCHANGED <<rvars, args, cvars, tvars>>

\* a plausible slip: the first entry listed taken for every period
ApplicableRateFirstListed(payment_date, rates) == rates[1].rate

\* line 41: the rate in force on the period's payment date
ApplicableRate(payment_date, rates) ==
    get_applicable_interest_rate(payment_date, rates)

\* a plausible slip: the interest left out of the payment stored
TotalPaymentPrincipalOnly(interest_payment, principal_payment) ==
    principal_payment

\* line 68
TotalPayment(interest_payment, principal_payment) ==
    interest_payment + principal_payment

\* a plausible slip: the balance stored clamped at zero
NewBalanceFloored(balance, principal_payment) ==
    IF balance < principal_payment THEN 0 ELSE balance - principal_payment

\* line 71
NewBalance(balance, principal_payment) == balance - principal_payment

\* the values one pass of the loop body computes (lines 36-68) from the
\* arguments a and the locals st
PassOf(a, st) ==
    LET counter         == st.month_counter + 1
        payment_date    == get_payment_date(a.start_date, counter)
        applicable_rate == ApplicableRate(payment_date, a.interest_rates)
        mrate           == MonthlyRate(applicable_rate)
        recompute       == NeedsRecompute(st.prev_monthly_payment, applicable_rate,
                                          st.schedule)
        term            == RemainingTerm(a.total_months, counter)
        raises          == recompute /\ PaymentRaises(st.remaining_balance, mrate, term)
        monthly_payment == IF recompute
                           THEN NewPayment(st.remaining_balance, mrate, term)
                           ELSE st.prev_monthly_payment[1]
        interest_payment == InterestPayment(st.remaining_balance, mrate)
        overpayment_amount == OverpaymentAmount(a.overpayments, counter)
        principal_payment == PrincipalPayment(monthly_payment, interest_payment,
                                 a.extra_payment, st.remaining_balance,
                                 overpayment_amount)
    IN  [counter |-> counter, payment_date |-> payment_date,
         applicable_rate |-> applicable_rate, raises |-> raises,
         monthly_payment |-> IF raises THEN 0 ELSE monthly_payment,
         interest_payment |-> interest_payment,
         overpayment_amount |-> overpayment_amount,
         principal_payment |-> IF raises THEN 0 ELSE principal_payment]

\* lines 59, 70-84: the locals after a pass p that did not raise
AfterPass(st, p) ==
    LET interest == st.total_interest + p.interest_payment
        balance  == NewBalance(st.remaining_balance, p.principal_payment)
    IN  [month_counter |-> p.counter,
         prev_monthly_payment |-> <<p.monthly_payment>>,
         total_interest |-> interest,
         remaining_balance |-> balance,
         schedule |-> Append(st.schedule,
              [Month |-> p.counter,
               Date |-> p.payment_date,
               Date_Str |-> format_date(p.payment_date),
               Rate |-> p.applicable_rate,
               Payment |-> TotalPayment(p.interest_payment, p.principal_payment),
               Principal |-> p.principal_payment,
               Interest |-> p.interest_payment,
               TotalInterest |-> interest,
               Balance |-> balance,
               Overpayment |-> p.overpayment_amount])]

\* the arguments the loop reads and the locals of the running call
Inputs ==
    [total_months |-> total_months, start_date |-> start_date,
     extra_payment |-> extra_payment, overpayments |-> overpayments,
     interest_rates |-> interest_rates]

Locals ==
    [month_counter |-> month_counter,
     prev_monthly_payment |-> prev_monthly_payment,
     total_interest |-> total_interest,
     remaining_balance |-> remaining_balance,
     schedule |-> schedule]

Pass == PassOf(Inputs, Locals)

\* lines 35-87: one pass of the loop that appends a record
Iterate ==
    /\ pc = "loop"
    /\ LoopCondition(remaining_balance, month_counter)
    /\ ~Pass.raises
    /\ LET n == AfterPass(Locals, Pass) IN
        /\ month_counter' = n.month_counter
        /\ prev_monthly_payment' = n.prev_monthly_payment
        /\ total_interest' = n.total_interest
        /\ remaining_balance' = n.remaining_balance
        /\ schedule' = n.schedule
        \* lines 86-87: break, then line 89 returns the schedule
        /\ pc' = IF n.remaining_balance <= 0 THEN "done" ELSE "loop"
    /\ UNCHANGED <<rvars, args, cvars, tvars, overpayments, interest_rates>>

\* line 51 raises ZeroDivisionError: the call ends without a schedule
IterateRaises ==
    /\ pc = "loop"
    /\ LoopCondition(remaining_balance, month_counter)
    /\ Pass.raises
    /\ month_counter' = month_counter + 1
    /\ pc' = "raised"
    /\ UNCHANGED <<rvars, args, cvars, tvars, overpayments, interest_rates, schedule,
                   remaining_balance, total_interest, prev_monthly_payment>>

\* line 35 finds the condition false; line 89 returns the schedule
LoopExit ==
    /\ pc = "loop"
    /\ ~LoopCondition(remaining_balance, month_counter)
    /\ pc' = "done"
    /\ UNCHANGED <<rvars, args, cvars, tvars, overpayments, interest_rates, schedule,
                   remaining_balance, total_interest, month_counter,
                   prev_monthly_payment>>

\* lines 35-89 as a function of the arguments and the locals: the loop run to
\* its end.  The result is the schedule returned, or raised.
RECURSIVE RunLoop(_, _)
RunLoop(a, st) ==
    IF ~LoopCondition(st.remaining_balance, st.month_counter)
    THEN [raised |-> FALSE, schedule |-> st.schedule]
    ELSE LET p == PassOf(a, st) IN
         IF p.raises THEN [raised |-> TRUE, schedule |-> <<>>]
         ELSE LET n == AfterPass(st, p) IN
              IF n.remaining_balance <= 0
              THEN [raised |-> FALSE, schedule |-> n.schedule]
              ELSE RunLoop(a, n)

\* lines 19-89: a whole call as a function of its arguments
calculate_amortization(loan, rate, total, sd, extra, ops_arg, rates_arg) ==
    RunLoop([total_months |-> total, start_date |-> sd, extra_payment |-> extra,
             overpayments |-> OverpaymentsOrEmpty(ops_arg),
             interest_rates |-> RatesOrDefault(rates_arg, rate, sd)],
            [month_counter |-> 0, prev_monthly_payment |-> <<>>,
             total_interest |-> 0, remaining_balance |-> loan,
             schedule |-> <<>>])

\* the number of calls a caller makes over the same objects
MaxRuns == 2

\* overpayment_tab.py lines 125-150, counterfactual_tab.py lines 54-70: the
\* caller, having got a schedule, calls again with the same loan, term, start
\* date, extra payment and rate schedule object, and with the same overpayment
\* map, none (the baseline), or, after a baseline, any map
CallAgain ==
    /\ pc = "done" /\ calls_made + 1 < MaxRuns
    /\ total_months \in ShortTerms
    \* the caller is followed for the loans that start on the first of a
    \* month and have no recurring extra payment
    /\ start_date = <<2023, 1, 1>> /\ extra_payment = 0
    /\ calls_made' = calls_made + 1
    /\ first_call' = IF calls_made = 0
                     THEN <<[overpayments |-> overpayments_arg,
                             interest_rates |-> interest_rates_arg,
                             schedule |-> schedule]>>
                     ELSE first_call
    /\ overpayments_arg' \in
           {overpayments_arg, <<>>}
               \cup (IF overpayments_arg = <<>>
                     THEN {<<m>> : m \in OverpaymentMaps} ELSE {})
    /\ pc' = "call"
    /\ UNCHANGED <<rvars, tvars, loan_amount, interest_rate, total_months,
                   start_date, extra_payment, interest_rates_arg, overpayments,
                   interest_rates, schedule, remaining_balance, total_interest,
                   month_counter, prev_monthly_payment>>

Next == Call \/ Iterate \/ IterateRaises \/ LoopExit \/ CallAgain

Spec == Init /\ [][Next]_vars

-----------------------------------------------------------------------------
(* Claims about calculate_amortization (checked under Spec).   *)

Done == pc = "done"

LastRecord == schedule[Len(schedule)]

Abs(x) == IF x < 0 THEN -x ELSE x

\* 0.01 currency units
Cent == Scale \div 100

\* every rate the run can resolve is positive
PositiveRates == \A i \in 1..Len(interest_rates) : interest_rates[i].rate > 0

NoExtras == extra_payment = 0 /\ overpayments_arg = <<>>

\* C4: for valid inputs the Balance of the last record is within 0.01 of zero
\* unless the schedule stopped at the 1000-period bound.
C4_FinalBalanceNearZero ==
    (Done /\ PositiveRates /\ total_months <= SafetyLimit
          /\ Len(schedule) >= 1 /\ Len(schedule) < SafetyLimit)
        => Abs(LastRecord.Balance) <= Cent

\* C5: no record of a returned schedule has a negative Balance, also in a
\* period that carries a one-time overpayment.
C5_BalanceNeverNegative ==
    (Done /\ PositiveRates) =>
        \A i \in 1..Len(schedule) : schedule[i].Balance >= 0

\* C6: when the resolved period rate is exactly zero and the remaining term is
\* positive, the call does not raise a division error and the payment is the
\* linear one, balance / remaining_term.
C6_ZeroRateLinear ==
    /\ pc # "raised"
    /\ (pc \in {"loop", "done"} /\ Len(schedule) = 1 /\ schedule[1].Rate = 0
            /\ total_months >= 1)
          => prev_monthly_payment = <<FDivInt(loan_amount, total_months)>>

\* C7 (safety part): never more than 1000 records; every record but the last
\* has a positive Balance; a returned schedule ends at the first Balance <= 0
\* or holds 1000 records, and a loan whose term exceeds 1000 periods yields
\* 1000 records with a positive final Balance.
C7_Bounded ==
    /\ Len(schedule) <= SafetyLimit
    /\ pc \in {"loop", "done"} => Len(schedule) = month_counter
    /\ \A i \in 1..(Len(schedule) - 1) : schedule[i].Balance > 0
    /\ Done => (remaining_balance <= 0 \/ Len(schedule) = SafetyLimit)
    /\ (Done /\ total_months > SafetyLimit /\ NoExtras) =>
          (Len(schedule) = SafetyLimit /\ LastRecord.Balance > 0)

\* C7: calculate_amortization always terminates and never returns more than
\* 1000 records: every step taken inside the loop either leaves it (return or
\* raise) or raises month_counter by one, month_counter never exceeds 1000,
\* and C7_Bounded holds after every step.
C7_TerminatesBounded ==
    [][ /\ C7_Bounded'
        /\ pc = "loop" =>
              \/ pc' \in {"done", "raised"}
              \/ /\ pc' = "loop"
                 /\ month_counter' = month_counter + 1
                 /\ month_counter' <= SafetyLimit ]_vars

C7_Witness ==
    /\ Done /\ total_months > SafetyLimit
    /\ Len(schedule) = SafetyLimit /\ LastRecord.Balance > 0
    /\ LastRecord.Month = SafetyLimit

\* C8: with no recurring extra payment and no overpayments, positive rates and
\* 1 <= total_periods <= 1000, the schedule has exactly total_periods records,
\* Month running 1..total_periods, and the balance reaches zero in the last.
C8_ExactlyTermRecords ==
    (Done /\ NoExtras /\ PositiveRates
          /\ total_months >= 1 /\ total_months <= SafetyLimit) =>
        /\ Len(schedule) = total_months
        /\ \A i \in 1..Len(schedule) : schedule[i].Month = i
        /\ LastRecord.Balance = 0

C10_ExtraPaymentFewerRecords ==
    (Done /\ extra_payment > 0 /\ interest_rates_arg = <<>>
          /\ overpayments_arg = <<>> /\ interest_rate > 0)
        => Len(schedule) < total_months

-----------------------------------------------------------------------------
(* Claims that compare two calls.  The running call is compared with a     *)
(* second call, computed by calculate_amortization, that differs from it   *)
(* in one argument.  The calls compared are those of the short terms.      *)

\* what a larger recurring extra payment adds: one unit of the grid, a cent,
\* one and fifty
ExtraIncrements == {1, Cent, Scale, 50 * Scale}

\* the call of the run with another extra payment and overpayment map
RunWith(extra, ops_arg) ==
    calculate_amortization(loan_amount, interest_rate, total_months,
                           start_date, extra, ops_arg, interest_rates_arg)

Compared == Done /\ total_months \in ShortTerms

\* sum of the Interest column
RECURSIVE SumInterest(_)
SumInterest(s) ==
    IF s = <<>> THEN 0 ELSE s[1].Interest + SumInterest(Tail(s))

\* C11: all else fixed, the run with a larger recurring extra payment never
\* has more records than the run with the smaller one.
C11_LargerExtraNoMoreRecords ==
    Compared =>
        \A d \in ExtraIncrements :
            LET larger == RunWith(extra_payment + d, overpayments_arg) IN
            ~larger.raised /\ Len(larger.schedule) <= Len(schedule)

\* a run that fifty more a month shortens, and one that a cent more does not
C11_Witness ==
    /\ Compared /\ extra_payment = 0 /\ Len(schedule) = MaxTerm
    /\ Len(RunWith(50 * Scale, overpayments_arg).schedule) < MaxTerm
    /\ Len(RunWith(Cent, overpayments_arg).schedule) = MaxTerm

\* C12: all else fixed, the run with a larger recurring extra payment never
\* has a larger total interest (sum of the Interest column) than the run with
\* the smaller one.
C12_LargerExtraNoMoreInterest ==
    Compared =>
        \A d \in ExtraIncrements :
            SumInterest(RunWith(extra_payment + d, overpayments_arg).schedule)
                <= SumInterest(schedule)

\* the running call is a baseline: it has no overpayment map
Baseline == Compared /\ overpayments_arg = <<>>

\* the balance before period k of the running call (line 26, line 71)
BalanceBefore(k) == IF k = 1 THEN loan_amount ELSE schedule[k - 1].Balance

\* one-time overpayment amounts tried against a limit: one and ten grid
\* units, a cent, a hundred (the least the overpayment form accepts) and the
\* limit itself
AmountsUpTo(limit) ==
    {a \in {1, 10, Cent, 100 * Scale, limit} : a > 0 /\ a <= limit}

\* the call of the baseline with the overpayment map {k: amount}
WithOverpayment(k, amount) == RunWith(extra_payment, <<(k :> amount)>>)

\* C13: for every period k of the baseline and every positive amount not
\* exceeding the balance remaining in period k, the run with overpayment map
\* {k: amount} has a strictly smaller sum of Interest than the baseline.
C13_OverpaymentReducesInterest ==
    Baseline =>
        \A k \in 1..Len(schedule) :
            \A a \in AmountsUpTo(schedule[k].Balance) :
                SumInterest(WithOverpayment(k, a).schedule)
                    < SumInterest(schedule)

\* C14: for every period k of the baseline and every positive amount not
\* exceeding the balance remaining in period k, the run with overpayment map
\* {k: amount} has no more records than the baseline.
C14_OverpaymentNoMoreRecords ==
    Baseline =>
        \A k \in 1..Len(schedule) :
            \A a \in AmountsUpTo(schedule[k].Balance) :
                Len(WithOverpayment(k, a).schedule) <= Len(schedule)

-----------------------------------------------------------------------------
(* Claims about the fields of the records.                                 *)

\* the call is in its loop or has returned: the schedule is the one built
Running == pc \in {"loop", "done"}

\* the amount the overpayment map given to the call holds for a period
MapAmount(period) ==
    IF overpayments_arg # <<>> /\ period \in DOMAIN overpayments_arg[1]
    THEN overpayments_arg[1][period] ELSE 0

\* C15: in every record the Overpayment field is the map's amount for the
\* record's period index, 0 when the map has no entry for it, and the amount
\* is added in full to the record's Principal (the regular principal, capped
\* at the balance, plus the overpayment).
C15_OverpaymentRecorded ==
    (Running /\ schedule # <<>>) =>
        /\ \A i \in 1..Len(schedule) :
               schedule[i].Overpayment = MapAmount(schedule[i].Month)
        /\ LastRecord.Principal =
               Min(prev_monthly_payment[1] - LastRecord.Interest + extra_payment,
                   BalanceBefore(Len(schedule)))
               + MapAmount(Len(schedule))

\* a returned schedule with an overpayment in its last record, larger than
\* what was left to pay, and a record without one
C15_Witness ==
    /\ Done /\ Len(schedule) >= 2
    /\ LastRecord.Overpayment > BalanceBefore(Len(schedule))
    /\ LastRecord.Principal > LastRecord.Overpayment
    /\ schedule[1].Overpayment = 0

\* C16: when the overpayment for period k is at least the balance at the
\* start of period k, the loan is paid off by it and the schedule ends at
\* period k, however long the term is.
C16_FullRepaymentEndsSchedule ==
    Running =>
        \A k \in 1..Len(schedule) :
            MapAmount(k) >= BalanceBefore(k) =>
                /\ Len(schedule) = k
                /\ schedule[k].Balance <= 0
                /\ Done

\* a loan over the longest term repaid in full in its third period
C16_Witness ==
    /\ Done /\ total_months = LongTerm /\ Len(schedule) = 3
    /\ MapAmount(3) >= BalanceBefore(3)
    /\ schedule[2].Balance > 0

\* the entries of the rate schedule in force on a date
InForce(date) ==
    {j \in 1..Len(interest_rates) : DateLE(interest_rates[j].start_date, date)}

\* C17: in every record Rate is the rate the resolver returns for the
\* record's Date against the rate schedule of the call, so that a rate change
\* takes effect in the first period whose payment date is on or after the
\* change's effective date: the Rate is that of the newest entry in force.
C17_RateResolvedAtDate ==
    Running =>
        \A i \in 1..Len(schedule) :
            /\ schedule[i].Date = get_payment_date(start_date, i)
            /\ schedule[i].Rate =
                   get_applicable_interest_rate(schedule[i].Date, interest_rates)
            /\ \A j \in InForce(schedule[i].Date) :
                   (\A h \in InForce(schedule[i].Date) :
                       DateLE(interest_rates[h].start_date,
                              interest_rates[j].start_date))
                   => schedule[i].Rate = interest_rates[j].rate

\* a schedule listed newest first whose change takes effect in period 2, on
\* the last day of February
C17_Witness ==
    /\ Done /\ Len(schedule) >= 2
    /\ interest_rates_arg # <<>>
    /\ start_date = <<2023, 1, 31>>
    /\ schedule[2].Date = <<2023, 2, 28>>
    /\ interest_rates[1].start_date = schedule[2].Date
    /\ schedule[1].Rate = interest_rates[2].rate
    /\ schedule[2].Rate = interest_rates[1].rate
    /\ schedule[1].Rate # schedule[2].Rate

\* C18: in every record Payment equals Principal plus Interest of the same
\* record.
C18_PaymentIsPrincipalPlusInterest ==
    Running =>
        \A i \in 1..Len(schedule) :
            schedule[i].Payment = schedule[i].Principal + schedule[i].Interest

\* a returned schedule with interest in every record and an overpayment
C18_Witness ==
    /\ Done /\ Len(schedule) = 3
    /\ \A i \in 1..3 : schedule[i].Interest > 0 /\ schedule[i].Principal > 0
    /\ schedule[2].Overpayment > 0
    /\ extra_payment > 0

\* C19: in every record Balance equals the balance before the period (the
\* principal for period 1, the previous record's Balance otherwise) minus the
\* record's Principal.
C19_BalanceIsBeforeMinusPrincipal ==
    Running =>
        \A i \in 1..Len(schedule) :
            schedule[i].Balance = BalanceBefore(i) - schedule[i].Principal

\* a returned schedule whose last Principal exceeds the balance before it
C19_Witness ==
    /\ Done /\ Len(schedule) >= 2
    /\ schedule[1].Balance > 0 /\ schedule[1].Balance < loan_amount
    /\ LastRecord.Principal > BalanceBefore(Len(schedule))
    /\ LastRecord.Balance < 0

\* the scheduled payment of the newest record: the monthly payment in force
\* (line 59 keeps it)
ScheduledPayment == prev_monthly_payment[1]

\* the newest record's regular principal was capped at the balance (line 62)
LastCapped ==
    ScheduledPayment - LastRecord.Interest + extra_payment
        > BalanceBefore(Len(schedule))

-----------------------------------------------------------------------------
(* Claims about calls that share inputs.                                   *)

\* the objects the caller passed, read through the locals bound to them
\* (lines 22-23, 32-33 rebind a local only when the argument is None)
SharedObjectsIntact ==
    /\ interest_rates_arg # <<>> => interest_rates = interest_rates_arg[1]
    /\ overpayments_arg # <<>> => overpayments = overpayments_arg[1]

\* what the call in progress returns when it is the only call ever made
AloneResult ==
    calculate_amortization(loan_amount, interest_rate, total_months,
                           start_date, extra_payment, overpayments_arg,
                           interest_rates_arg)

\* C21: runs are independent and stateless.  A call leaves the objects the
\* caller passed (rate schedule, overpayment map) as they were; whatever call
\* went before, a call returns the schedule it returns when made alone, so
\* baseline and overpayment runs give the same schedules in either order, and
\* a call repeated with the same inputs returns a schedule identical to the
\* first.
C21_RunsIndependent ==
    /\ Running => SharedObjectsIntact
    /\ first_call # <<>> => interest_rates_arg = first_call[1].interest_rates
    /\ Compared =>
          /\ ~AloneResult.raised
          /\ schedule = AloneResult.schedule
          /\ (/\ first_call # <<>>
              /\ first_call[1].overpayments = overpayments_arg)
                => schedule = first_call[1].schedule

\* an overpayment run returned after a baseline over the same rate schedule
C21_Witness ==
    /\ Done /\ calls_made = 1
    /\ first_call[1].overpayments = <<>> /\ overpayments_arg # <<>>
    /\ interest_rates_arg # <<>>
    /\ Len(first_call[1].schedule) >= 2
    /\ schedule # first_call[1].schedule

\* the call in progress made with another single rate, or another rate
\* schedule argument
WithRate(rate, rates_arg) ==
    calculate_amortization(loan_amount, rate, total_months, start_date,
                           extra_payment, overpayments_arg, rates_arg)

\* C22: when a rate schedule is supplied the single interest_rate is
\* overridden: runs that differ only in interest_rate return identical
\* schedules; when interest_rates is None the schedule is that of the single
\* entry {interest_rate, start_date}.
C22_ScheduleOverridesSingleRate ==
    Compared =>
        /\ interest_rates_arg # <<>> =>
               \A r \in Rates :
                   /\ ~WithRate(r, interest_rates_arg).raised
                   /\ WithRate(r, interest_rates_arg).schedule = schedule
        /\ interest_rates_arg = <<>> =>
               /\ schedule =
                      WithRate(0, <<<<Entry(interest_rate, start_date)>>>>).schedule
               /\ \A i \in 1..Len(schedule) : schedule[i].Rate = interest_rate

\* a run with a rate schedule that returns although its single rate is 0,
\* the rate that alone makes the call raise
C22_Witness ==
    /\ Compared /\ interest_rates_arg # <<>> /\ interest_rate = 0
    /\ Len(schedule) >= 2
    /\ WithRate(0, <<>>).raised
    /\ \A i \in 1..Len(schedule) : schedule[i].Rate > 0

-----------------------------------------------------------------------------
(* Claims about the scheduled payment.                                     *)

\* a step of the loop that appends a record
AppendsRecord ==
    /\ pc = "loop" /\ pc' \in {"loop", "done"}
    /\ Len(schedule') = Len(schedule) + 1

\* the record appended has a rate other than the record before it, or is
\* the first
RateChanged ==
    \/ schedule = <<>>
    \/ schedule'[Len(schedule')].Rate # schedule[Len(schedule)].Rate

\* C23: the scheduled payment is recomputed, by the annuity formula on the
\* current balance and the remaining term total_months - period + 1, only in
\* period 1 and in periods whose rate differs from the previous period's; in
\* every other period the previous scheduled payment is reused unchanged,
\* also after a one-time overpayment and with a recurring extra payment.
C23_RecomputedOnlyOnRateChange ==
    [][ AppendsRecord =>
          LET period == Len(schedule')
              rate   == schedule'[period].Rate
              term   == total_months - period + 1
          IN  /\ (RateChanged /\ term > 0) =>
                    prev_monthly_payment' =
                        <<AnnuityPayment(remaining_balance, MonthlyRate(rate),
                                         term)>>
              /\ ~RateChanged => prev_monthly_payment' = prev_monthly_payment
      ]_vars

\* the second period of a fixed-rate loan with an extra payment, just after
\* an overpayment: the payment in force is still the one of period 1
C23_Witness ==
    /\ pc = "loop" /\ Len(schedule) = 2 /\ remaining_balance > 0
    /\ extra_payment > 0 /\ schedule[2].Overpayment > 0
    /\ schedule[1].Rate = schedule[2].Rate
    /\ prev_monthly_payment =
           <<AnnuityPayment(loan_amount, MonthlyRate(schedule[1].Rate),
                            total_months)>>
    /\ prev_monthly_payment #
           <<AnnuityPayment(schedule[1].Balance, MonthlyRate(schedule[2].Rate),
                            total_months - 1)>>

\* the record appended returns to a rate an earlier period had, other than
\* the rate of the period just before it
RateReturns ==
    /\ schedule # <<>>
    /\ schedule'[Len(schedule')].Rate # schedule[Len(schedule)].Rate
    /\ \E i \in 1..(Len(schedule) - 1) :
           schedule[i].Rate = schedule'[Len(schedule')].Rate

\* C24: a rate schedule that goes back to a rate seen before (5% -> 6% ->
\* 5%) still has the payment recomputed in the period where the rate returns:
\* the payment kept is the one computed on that period's balance, rate and
\* remaining term.
C24_ReturningRateRecomputes ==
    [][ (AppendsRecord /\ RateReturns) =>
          prev_monthly_payment' =
              <<NewPayment(remaining_balance,
                           MonthlyRate(schedule'[Len(schedule')].Rate),
                           total_months - Len(schedule') + 1)>>
      ]_vars

\* the third period of a loan at 5%, 6%, 5%: its payment is neither the one
\* of period 1, computed at 5%, nor the one of period 2
C24_Witness ==
    /\ Running /\ Len(schedule) = 3 /\ total_months > 3
    /\ schedule[1].Rate = schedule[3].Rate
    /\ schedule[2].Rate # schedule[3].Rate
    /\ prev_monthly_payment #
           <<AnnuityPayment(loan_amount, MonthlyRate(schedule[1].Rate),
                            total_months)>>
    /\ prev_monthly_payment #
           <<AnnuityPayment(schedule[1].Balance, MonthlyRate(schedule[2].Rate),
                            total_months - 1)>>
    /\ prev_monthly_payment =
           <<AnnuityPayment(schedule[2].Balance, MonthlyRate(schedule[3].Rate),
                            total_months - 2)>>

-----------------------------------------------------------------------------
(* Claims about dates.                                                     *)

\* months counted from year 0
MonthIndex(date) == date[1] * 12 + date[2]

\* C25: the Date of the record for period k is start_date advanced by k - 1
\* whole months, computed from start_date itself: the month is k - 1 months
\* after the start's, the day is the start's day of month, or the last day of
\* the month when the month is shorter; record dates are strictly increasing.
C25_DateIsStartPlusMonths ==
    Running =>
        \A k \in 1..Len(schedule) :
            LET d == schedule[k].Date IN
            /\ d[2] \in 1..12
            /\ MonthIndex(d) = MonthIndex(start_date) + (k - 1)
            /\ d[3] = IF start_date[3] <= DaysInMonth(d[1], d[2])
                      THEN start_date[3] ELSE DaysInMonth(d[1], d[2])
            /\ k > 1 => DateLT(schedule[k - 1].Date, d)

\* a start on 31 December: 31 January, 29 February of the leap year, and the
\* 31st again in March
C25_Witness ==
    /\ Running /\ Len(schedule) >= 4
    /\ schedule[1].Date = <<2023, 12, 31>>
    /\ schedule[2].Date = <<2024, 1, 31>>
    /\ schedule[3].Date = <<2024, 2, 29>>
    /\ schedule[4].Date = <<2024, 3, 31>>

-----------------------------------------------------------------------------
(* The payment recomputed after the term has elapsed (lines 45-54).        *)

\* the pass about to run recomputes the payment (line 45) with a remaining
\* term of 0 or less (line 47, the else branch of line 50)
PayoffDue ==
    /\ pc = "loop"
    /\ LoopCondition(remaining_balance, month_counter)
    /\ NeedsRecompute(prev_monthly_payment, Pass.applicable_rate, schedule)
    /\ RemainingTerm(total_months, Pass.counter) <= 0

\* C26: when the payment is recomputed in a period whose remaining term is 0
\* or less (a term of 0 months in period 1, or a rate change after the term
\* has elapsed), the payment is balance * (1 + r) with no division: the call
\* does not raise, the period pays off the whole remaining balance and the
\* schedule ends with it.
C26_PayoffEndsSchedule ==
    [][ PayoffDue =>
          /\ pc' # "raised"
          /\ prev_monthly_payment' =
                 <<PayoffPayment(remaining_balance,
                                 MonthlyRate(Pass.applicable_rate))>>
          /\ remaining_balance' <= 0
          /\ pc' = "done"
      ]_vars

-----------------------------------------------------------------------------
(* utils/date_utils.py payment_date_to_month: relativedelta(dt1, dt2).     *)

\* the difference of the calendar months of two dates
CalendarMonths(dt1, dt2) ==
    (dt1[1] - dt2[1]) * MonthsPerYear + (dt1[2] - dt2[2])

\* relativedelta(dt1, dt2) for dt1 >= dt2: while dt2 plus the months found
\* lies after dt1, one month less
RECURSIVE MonthsStepBack(_, _, _)
MonthsStepBack(dt1, dt2, months) ==
    IF DateLT(dt1, AddMonths(dt2, months))
    THEN MonthsStepBack(dt1, dt2, months - 1)
    ELSE months

\* relativedelta(dt1, dt2) for dt1 < dt2: while dt2 plus the months found lies
\* before dt1, one month more
RECURSIVE MonthsStepOn(_, _, _)
MonthsStepOn(dt1, dt2, months) ==
    IF DateLT(AddMonths(dt2, months), dt1)
    THEN MonthsStepOn(dt1, dt2, months + 1)
    ELSE months

\* relativedelta(dt1, dt2): the years and months from dt2 to dt1, both of the
\* sign of the difference, the months within a year
relativedelta(dt1, dt2) ==
    LET months == IF DateLT(dt1, dt2)
                  THEN MonthsStepOn(dt1, dt2, CalendarMonths(dt1, dt2))
                  ELSE MonthsStepBack(dt1, dt2, CalendarMonths(dt1, dt2))
        sign   == IF months < 0 THEN -1 ELSE 1
        size   == sign * months
    IN  [years  |-> sign * (size \div MonthsPerYear),
         months |-> sign * (size % MonthsPerYear)]

\* a slip: the period taken from the calendar months alone, the day ignored
payment_date_to_month_calendar(payment_date, sd) ==
    CalendarMonths(payment_date, sd) + 1

\* lines 12-16
payment_date_to_month(payment_date, sd) ==
    LET delta == relativedelta(payment_date, sd)
    IN  delta.years * MonthsPerYear + delta.months + 1

-----------------------------------------------------------------------------
(* components/tabs/overpayment_tab.py lines 72-122 (the same code is in     *)
(* app.py lines 852-902): the loop that turns the list of dated            *)
(* overpayments into the map {month: amount} passed to the engine.         *)

MaxListed == 2

\* the day after a date
NextDay(date) ==
    IF date[3] < DaysInMonth(date[1], date[2]) THEN <<date[1], date[2], date[3] + 1>>
    ELSE IF date[2] < MonthsPerYear THEN <<date[1], date[2] + 1, 1>>
    ELSE <<date[1] + 1, 1, 1>>

\* the dates the date picker of lines 84-90 lets through: from start_date
\* to start_date + relativedelta(months=total_months)
PickerDates(sd, total) ==
    LET last == AddMonths(sd, total)
    IN  { x \in { <<y, m, d>> : y \in sd[1]..last[1], m \in 1..MonthsPerYear,
                                d \in 1..31 } :
            /\ x[3] <= DaysInMonth(x[1], x[2])
            /\ DateLE(sd, x) /\ DateLE(x, last) }

\* of them, the payment dates and the days just before a payment date
EdgeDates(sd, total) ==
    { x \in PickerDates(sd, total) :
        \E k \in 1..(total + 1) :
            get_payment_date(sd, k) \in {x, NextDay(x)} }

\* amounts of listed overpayments, from the least the number input accepts
ListedAmounts == {100 * Scale, 250 * Scale}

\* entries {"date": ..., "amount": ...} whose amount the number input of lines
\* 97-104 lets through; the key "month" is absent until the loop sets it
ListedEntries(dates, loan) ==
    [date : dates, amount : {a \in ListedAmounts : a <= loan}, month : {<<>>}]

\* the lists the tab is given: one entry on any day, or up to MaxListed
\* entries on or just before payment dates
ListedOverpayments(sd, total, loan) ==
    {<<e>> : e \in ListedEntries(PickerDates(sd, total), loan)}
        \cup SeqsUpTo(ListedEntries(EdgeDates(sd, total), loan), MaxListed)

InitTab ==
    /\ ResolverIdle
    /\ pc = "idle"
    /\ loan_amount \in Loans /\ interest_rate = 0
    /\ total_months \in ShortTerms /\ start_date \in StartDates
    /\ extra_payment = 0 /\ overpayments_arg = <<>> /\ interest_rates_arg = <<>>
    /\ overpayments = <<>> /\ interest_rates = <<>>
    /\ schedule = <<>> /\ remaining_balance = 0 /\ total_interest = 0
    /\ month_counter = 0 /\ prev_monthly_payment = <<>>
    /\ calls_made = 0 /\ first_call = <<>>
    \* line 73
    /\ tab_pc = "build" /\ tab_i = 0 /\ overpayments_dict = <<>>
    /\ session_overpayments
           \in ListedOverpayments(start_date, total_months, loan_amount)

\* a slip: a later overpayment of a month replaces the earlier one
DictAddOverwrite(dict, month, amount) ==
    IF month \in DOMAIN dict THEN [dict EXCEPT ![month] = amount]
    ELSE dict @@ (month :> amount)

\* lines 119-122
DictAdd(dict, month, amount) ==
    IF month \in DOMAIN dict THEN [dict EXCEPT ![month] = @ + amount]
    ELSE dict @@ (month :> amount)

\* lines 77-122: one pass of the loop over the list
TabPass ==
    /\ tab_pc = "build" /\ tab_i < Len(session_overpayments)
    /\ LET i            == tab_i + 1
           op           == session_overpayments[i]
           payment_date == op.date
           month_num    == payment_date_to_month(payment_date, start_date)
       IN  /\ session_overpayments' =
                  [session_overpayments EXCEPT ![i].month = <<month_num>>]
           /\ overpayments_dict' = DictAdd(overpayments_dict, month_num, op.amount)
           /\ tab_i' = i
    /\ tab_pc' = "build"
    /\ UNCHANGED <<rvars, args, evars, cvars>>

\* the loop has been through the list; line 125 goes on with the map
TabBuilt ==
    /\ tab_pc = "build" /\ tab_i = Len(session_overpayments)
    /\ tab_pc' = "built"
    /\ UNCHANGED <<rvars, args, evars, cvars, session_overpayments, tab_i,
                   overpayments_dict>>

NextTab == TabPass \/ TabBuilt

SpecTab == InitTab /\ [][NextTab]_vars

\* the period an entry's date maps to
PeriodOf(entry) == payment_date_to_month(entry.date, start_date)

\* the sum of the amounts of the first n entries of the list whose date maps
\* to one of the periods
RECURSIVE ListedAmount(_, _)
ListedAmount(n, periods) ==
    IF n = 0 THEN 0
    ELSE ListedAmount(n - 1, periods)
         + (IF PeriodOf(session_overpayments[n]) \in periods
            THEN session_overpayments[n].amount ELSE 0)

\* sum(overpayments_dict.values()) over a set of keys
RECURSIVE MapAmounts(_)
MapAmounts(keys) ==
    IF keys = {} THEN 0
    ELSE LET k == CHOOSE x \in keys : TRUE
         IN  overpayments_dict[k] + MapAmounts(keys \ {k})

Mapped == {j \in 1..Len(session_overpayments) : session_overpayments[j].month # <<>>}

\* C30: payment_date_to_month inverts get_payment_date.  For every start date
\* (end-of-month days included) and every period k >= 1, the payment date of
\* period k maps to k, and any date from the payment date of period k up to
\* the day before the payment date of period k + 1 maps to k: a dated
\* overpayment falls in the period whose payment date is the latest one on or
\* before it.
C30_MonthInvertsPaymentDate ==
    \A j \in Mapped :
        LET date == session_overpayments[j].date
            k    == session_overpayments[j].month[1]
        IN  /\ k >= 1
            /\ DateLE(get_payment_date(start_date, k), date)
            /\ DateLT(date, get_payment_date(start_date, k + 1))
            /\ \A n \in 1..(total_months + 1) :
                   date = get_payment_date(start_date, n) => k = n

\* a loan starting on 31 January: its second payment date, 28 February, is
\* clipped to the end of the month and maps back to period 2, and so does the
\* day before its third payment date
C30_Witness ==
    /\ start_date = <<2023, 1, 31>> /\ tab_pc = "built"
    /\ Len(session_overpayments) = 2
    /\ session_overpayments[1].date = <<2023, 2, 28>>
    /\ session_overpayments[1].month = <<2>>
    /\ session_overpayments[2].date = <<2023, 3, 30>>
    /\ session_overpayments[2].month = <<2>>

-----------------------------------------------------------------------------
(* The sign of the Balance column (lines 62-71, 86-87).                    *)

-----------------------------------------------------------------------------
(* components/tabs/counterfactual_tab.py lines 21-70: the run with the     *)
(* rate schedule as given against the run without its last entry.          *)

\* a slip: the first entry dropped instead of the last
counterfactual_rates_tail(rates) == SubSeq(rates, 2, Len(rates))

\* line 22: interest_rates[:-1].copy()
counterfactual_rates(rates) == SubSeq(rates, 1, Len(rates) - 1)

\* at least two entries, sorted ascending by start_date, the dates distinct
Ascending(rates) ==
    /\ Len(rates) >= 2
    /\ \A i \in 1..(Len(rates) - 1) :
           DateLT(rates[i].start_date, rates[i + 1].start_date)

\* the schedules the tab is compared on: the one of the call in progress,
\* and for a call without one a schedule whose first entry takes effect a
\* month after the loan starts
ComparedSchedules ==
    IF interest_rates_arg # <<>>
    THEN {l \in {interest_rates_arg[1]} : Ascending(l)}
    ELSE {<<Entry(interest_rate, AddMonths(start_date, 1)),
            Entry(6 * Scale, AddMonths(start_date, 2))>>}

\* lines 54-70: the two calls of the tab on a schedule
ActualRun(rates) == WithRate(interest_rate, <<rates>>)
CounterfactualRun(rates) == WithRate(interest_rate, <<counterfactual_rates(rates)>>)

\* the periods whose payment date precedes the start of the entry removed
PeriodsBefore(rates) ==
    {k \in 1..SafetyLimit :
        DateLT(get_payment_date(start_date, k), rates[Len(rates)].start_date)}

\* C29: the counterfactual run uses the rate schedule with its last entry
\* removed; for a schedule of at least two entries sorted ascending by
\* effective date, the actual and the counterfactual schedule have the same
\* record (rate, payment, principal, interest, balance and the rest) in every
\* period whose date precedes the removed entry's effective date.
C29_CounterfactualSharesPrefix ==
    (Compared /\ overpayments_arg = <<>>) =>
        \A l \in ComparedSchedules :
            LET actual == ActualRun(l)
                counterfactual == CounterfactualRun(l)
            IN  /\ Len(counterfactual_rates(l)) = Len(l) - 1
                /\ \A i \in 1..(Len(l) - 1) : counterfactual_rates(l)[i] = l[i]
                /\ (~actual.raised /\ ~counterfactual.raised) =>
                      \A k \in PeriodsBefore(l) :
                          /\ k <= Len(actual.schedule)
                                <=> k <= Len(counterfactual.schedule)
                          /\ k <= Len(actual.schedule) =>
                                actual.schedule[k] = counterfactual.schedule[k]

\* a returned run on the schedule 5%, 6% from the second month, 5% from the
\* third: without the last entry the third period is charged 6%, and the
\* two periods before it are the same in both runs
C29_Witness ==
    /\ Compared /\ overpayments_arg = <<>> /\ interest_rates_arg # <<>>
    /\ Ascending(interest_rates_arg[1]) /\ Len(interest_rates_arg[1]) = 3
    /\ Len(schedule) >= 3
    /\ PeriodsBefore(interest_rates_arg[1]) = {1, 2}
    /\ LET counterfactual == CounterfactualRun(interest_rates_arg[1]).schedule
       IN  /\ Len(counterfactual) >= 3
           /\ counterfactual[1] = schedule[1]
           /\ counterfactual[2] = schedule[2]
           /\ counterfactual[3].Rate # schedule[3].Rate
           /\ counterfactual[3].Payment # schedule[3].Payment

====
